---------------------------- MODULE Spec2Model ----------------------------
(***************************************************************************)
(* TPC-H Query 5 (query5.cpp): parseArgs, the fork-join engine             *)
(* executeQuery5 and the result writer outputResults.                      *)
(*                                                                         *)
(* Program strings are TLA+ strings.  Where the code looks inside a string *)
(* (lexicographic date comparison, std::stod, std::stoi) the model goes    *)
(* through Spelling, the string's sequence of ASCII codes.                 *)
(* Reals are fixed point: a parsed number is held in hundredths, a revenue *)
(* (a product of two of them) in ten-thousandths.                          *)
(***************************************************************************)
EXTENDS Integers, Sequences, FiniteSets, TLC

VARIABLES
    \* executeQuery5: parameters
    r_name, start_date, end_date, num_threads,
    customer_data, orders_data, lineitem_data, supplier_data, nation_data,
    region_data, results,
    \* executeQuery5: locals of the filter phase
    valid_region_keys, nation_key_to_name, valid_customers, valid_suppliers,
    valid_orders,
    \* executeQuery5: the parallel phase
    thread_results, pc, loop_i, wstate, wrange, wpos, wtmp, contributed,
    \* parseArgs and its caller
    argv, table_path, result_path, args_status, engine_divisor,
    \* outputResults
    file_opens, sorted_results, outfile, out_status

engineVars == <<r_name, start_date, end_date, num_threads, customer_data,
                orders_data, lineitem_data, supplier_data, nation_data,
                region_data, results, valid_region_keys, nation_key_to_name,
                valid_customers, valid_suppliers, valid_orders, thread_results,
                pc, loop_i, wstate, wrange, wpos, wtmp, contributed>>
argsVars == <<argv, table_path, result_path, args_status, engine_divisor>>
outVars == <<file_opens, sorted_results, outfile, out_status>>
vars == <<engineVars, argsVars, outVars>>

-----------------------------------------------------------------------------
(* Bounds of the model *)

MaxThreads == 3
MaxItems == 3

-----------------------------------------------------------------------------
(* Strings *)

\* The characters of every string the model looks inside, as ASCII codes.
Spelling ==
    [s \in {"1993-12-31", "1994-01-01", "1994-06-15", "1994-12-31",
            "1995-01-01", "garbage", "", "100", "50", "0.1", "0", "0.5", "x",
            "12x", "4", "2", "-2", "abc", " 3"} |->
        CASE s = "1993-12-31" -> <<49, 57, 57, 51, 45, 49, 50, 45, 51, 49>>
          [] s = "1994-01-01" -> <<49, 57, 57, 52, 45, 48, 49, 45, 48, 49>>
          [] s = "1994-06-15" -> <<49, 57, 57, 52, 45, 48, 54, 45, 49, 53>>
          [] s = "1994-12-31" -> <<49, 57, 57, 52, 45, 49, 50, 45, 51, 49>>
          [] s = "1995-01-01" -> <<49, 57, 57, 53, 45, 48, 49, 45, 48, 49>>
          [] s = "garbage" -> <<103, 97, 114, 98, 97, 103, 101>>
          [] s = "" -> << >>
          [] s = "100" -> <<49, 48, 48>>
          [] s = "50" -> <<53, 48>>
          [] s = "0.1" -> <<48, 46, 49>>
          [] s = "0" -> <<48>>
          [] s = "0.5" -> <<48, 46, 53>>
          [] s = "x" -> <<120>>
          [] s = "12x" -> <<49, 50, 120>>
          [] s = "4" -> <<52>>
          [] s = "2" -> <<50>>
          [] s = "-2" -> <<45, 50>>
          [] s = "abc" -> <<97, 98, 99>>
          [] s = " 3" -> <<32, 51>>]

IsDigit(c) == c \in 48..57

\* std::string operator< : lexicographic on the characters, a proper prefix
\* is smaller.
RECURSIVE SeqLess(_, _)
SeqLess(a, b) ==
    IF b = << >> THEN FALSE
    ELSE IF a = << >> THEN TRUE
    ELSE IF Head(a) # Head(b) THEN Head(a) < Head(b)
    ELSE SeqLess(Tail(a), Tail(b))

StrLess(s, t) == SeqLess(Spelling[s], Spelling[t])

\* The leading white space std::stod and std::stoi skip.
RECURSIVE SkipSpace(_)
SkipSpace(cs) ==
    IF cs # << >> /\ Head(cs) = 32 THEN SkipSpace(Tail(cs)) ELSE cs

\* The longest run of digits at the front of cs: <<value, digits read, rest>>.
RECURSIVE Digits(_, _, _)
Digits(cs, acc, n) ==
    IF cs # << >> /\ IsDigit(Head(cs))
    THEN Digits(Tail(cs), acc * 10 + (Head(cs) - 48), n + 1)
    ELSE <<acc, n, cs>>

\* The characters start with a minus sign.
IsNegative(cs) == cs # << >> /\ Head(cs) = 45

\* The characters after an optional sign.
Unsigned(cs) == IF cs # << >> /\ Head(cs) \in {43, 45} THEN Tail(cs) ELSE cs

\* std::stoi on a digit scan d of the unsigned characters: the longest digit
\* prefix; what follows the digits is ignored; std::invalid_argument when there
\* is no digit.
StoiOf(neg, d) ==
    IF d[2] = 0 THEN [ok |-> FALSE, val |-> 0]
    ELSE [ok |-> TRUE, val |-> IF neg THEN 0 - d[1] ELSE d[1]]

\* std::stoi: white space, an optional sign, digits.
Stoi(s) ==
    StoiOf(IsNegative(SkipSpace(Spelling[s])),
           Digits(Unsigned(SkipSpace(Spelling[s])), 0, 0))

\* The digits after the point, when the characters start with a point.
FractionDigits(cs) ==
    IF cs # << >> /\ Head(cs) = 46 THEN Digits(Tail(cs), 0, 0) ELSE <<0, 0, cs>>

\* A fraction scan as hundredths: two fraction digits are kept.
Hundredths(fp) ==
    IF fp[2] = 0 THEN 0
    ELSE IF fp[2] = 1 THEN fp[1] * 10
    ELSE IF fp[2] = 2 THEN fp[1]
    ELSE fp[1] \div (10 ^ (fp[2] - 2))

\* The number read from a scan ip of the integer part and a scan fp of the
\* fraction, in hundredths; ndigits counts the digits read.
StodOf(neg, ip, fp) ==
    [ndigits |-> ip[2] + fp[2],
     val |-> IF neg THEN 0 - (ip[1] * 100 + Hundredths(fp))
             ELSE ip[1] * 100 + Hundredths(fp)]

\* The scan of std::stod after the sign: digits, an optional point and digits;
\* what follows is ignored.
StodUnsigned(neg, ip) == StodOf(neg, ip, FractionDigits(ip[3]))

\* The scan of std::stod: white space, an optional sign, the number.
StodScan(s) ==
    StodUnsigned(IsNegative(SkipSpace(Spelling[s])),
                 Digits(Unsigned(SkipSpace(Spelling[s])), 0, 0))

\* A conversion that yields 0 where std::stod throws.
StodLenient(s) == [ok |-> TRUE, val |-> StodScan(s).val]

\* std::stod: std::invalid_argument (ok = FALSE) when no digit was read.
Stod(s) == [ok |-> StodScan(s).ndigits > 0, val |-> StodScan(s).val]

-----------------------------------------------------------------------------
(* std::map *)

EmptyMap == [k \in {} |-> 0]

\* m[k] = v
MapPut(m, k, v) == [x \in (DOMAIN m) \cup {k} |-> IF x = k THEN v ELSE m[x]]

\* The map after an evaluation of m[k]: operator[] inserts a
\* value-initialised entry when k is absent.
MapIndex(m, k, dflt) == IF k \in DOMAIN m THEN m ELSE MapPut(m, k, dflt)

-----------------------------------------------------------------------------
(* Inputs of executeQuery5: the rows readTPCHData hands over, reduced to the *)
(* columns the query reads.                                                  *)

Region(k, n) == [r_regionkey |-> k, r_name |-> n]
Nation(k, n, r) == [n_nationkey |-> k, n_name |-> n, n_regionkey |-> r]
Customer(k, n) == [c_custkey |-> k, c_nationkey |-> n]
Supplier(k, n) == [s_suppkey |-> k, s_nationkey |-> n]
Order(k, c, d) == [o_orderkey |-> k, o_custkey |-> c, o_orderdate |-> d]
LineItem(o, s, p, d) ==
    [l_orderkey |-> o, l_suppkey |-> s, l_extendedprice |-> p, l_discount |-> d]

\* Two regions carry the target name; two nation keys carry the name CHINA.
Regions == <<Region("R1", "ASIA"), Region("R2", "EUROPE"), Region("R3", "ASIA")>>
Nations == <<Nation("N1", "CHINA", "R1"), Nation("N2", "INDIA", "R1"),
             Nation("N3", "FRANCE", "R2"), Nation("N4", "CHINA", "R3")>>
Customers == <<Customer("C1", "N1"), Customer("C2", "N2"),
               Customer("C3", "N3"), Customer("C4", "N4")>>
Suppliers == <<Supplier("S1", "N1"), Supplier("S2", "N2"),
               Supplier("S3", "N3"), Supplier("S4", "N4")>>
\* O2 lies on the start date, O3 on the end date, O4 belongs to a customer
\* outside the region.
Orders == <<Order("O1", "C1", "1994-06-15"), Order("O2", "C2", "1994-01-01"),
            Order("O3", "C4", "1995-01-01"), Order("O4", "C3", "1994-06-15")>>

\* The tables a run is given: well formed; with repeated customer keys and a
\* repeated order key; well formed with a target region none of whose nations
\* has both a customer's order and a supplier among the line items.
Datasets ==
    { [rname |-> "ASIA", customers |-> Customers, orders |-> Orders],
      [rname |-> "ASIA",
       customers |-> Customers \o <<Customer("C2", "N1"), Customer("C3", "N1")>>,
       orders |-> Orders \o <<Order("O3", "C4", "1994-12-31")>>],
      [rname |-> "EUROPE", customers |-> Customers, orders |-> Orders] }

\* The line items a run draws from.
ItemChoices ==
    { LineItem("O1", "S1", "100", "0.1"),
      LineItem("O2", "S2", "50", "0"),
      LineItem("O3", "S4", "50", "0.5"),
      LineItem("O4", "S1", "12x", "0.5"),
      LineItem("O2", "S1", "50", "x") }

-----------------------------------------------------------------------------
(* executeQuery5, steps 1 to 5: the dimension filter *)

\* Step 1: the keys of the regions named r_name, in table order.
RECURSIVE ValidRegionKeys(_, _)
ValidRegionKeys(regions, name) ==
    IF regions = << >> THEN << >>
    ELSE (IF Head(regions).r_name = name
          THEN <<Head(regions).r_regionkey>> ELSE << >>)
         \o ValidRegionKeys(Tail(regions), name)

\* Step 2: nation key -> name, for the nations of those regions.
RECURSIVE NationKeyToName(_, _)
NationKeyToName(nations, rkeys) ==
    IF nations = << >> THEN EmptyMap
    ELSE LET n == nations[Len(nations)]
             m == NationKeyToName(SubSeq(nations, 1, Len(nations) - 1), rkeys)
         IN  IF \E j \in 1..Len(rkeys) : n.n_regionkey = rkeys[j]
             THEN MapPut(m, n.n_nationkey, n.n_name) ELSE m

\* Step 3: customer key -> nation key, for the customers of those nations.
RECURSIVE ValidCustomers(_, _)
ValidCustomers(customers, nk) ==
    IF customers = << >> THEN EmptyMap
    ELSE LET c == customers[Len(customers)]
             m == ValidCustomers(SubSeq(customers, 1, Len(customers) - 1), nk)
         IN  IF c.c_nationkey \in DOMAIN nk
             THEN MapPut(m, c.c_custkey, c.c_nationkey) ELSE m

\* Step 4: supplier key -> nation key, for the suppliers of those nations.
RECURSIVE ValidSuppliers(_, _)
ValidSuppliers(suppliers, nk) ==
    IF suppliers = << >> THEN EmptyMap
    ELSE LET s == suppliers[Len(suppliers)]
             m == ValidSuppliers(SubSeq(suppliers, 1, Len(suppliers) - 1), nk)
         IN  IF s.s_nationkey \in DOMAIN nk
             THEN MapPut(m, s.s_suppkey, s.s_nationkey) ELSE m

\* The date window with the end date included.
InWindowClosed(o_date, sd, ed) == ~StrLess(o_date, sd) /\ ~StrLess(ed, o_date)

\* o_date >= start_date && o_date < end_date
InWindow(o_date, sd, ed) == ~StrLess(o_date, sd) /\ StrLess(o_date, ed)

\* An order filter that leaves out the check of the customer.
OrderAdmittedAnyCustomer(o, vc, sd, ed) == InWindow(o.o_orderdate, sd, ed)

\* Step 5, the test of one order: in the window and of a valid customer.
OrderAdmitted(o, vc, sd, ed) ==
    InWindow(o.o_orderdate, sd, ed) /\ o.o_custkey \in DOMAIN vc

\* Step 5: order key -> customer key.
RECURSIVE ValidOrders(_, _, _, _)
ValidOrders(orders, vc, sd, ed) ==
    IF orders = << >> THEN EmptyMap
    ELSE LET o == orders[Len(orders)]
             m == ValidOrders(SubSeq(orders, 1, Len(orders) - 1), vc, sd, ed)
         IN  IF OrderAdmitted(o, vc, sd, ed)
             THEN MapPut(m, o.o_orderkey, o.o_custkey) ELSE m

-----------------------------------------------------------------------------
(* executeQuery5, step 6: the partition of the line items *)

\* chunk_size = total_items / num_threads
ChunkSize(total, n) == total \div n

\* A start index that sends every worker back to the first row.
RangeStartZero(i, chunk) == 0

\* start = i * chunk_size
RangeStart(i, chunk) == i * chunk

\* An end index that gives the last worker no remainder.
RangeEndEven(i, n, total, chunk) == (i + 1) * chunk

\* end = (i == num_threads - 1) ? total_items : (i + 1) * chunk_size
RangeEnd(i, n, total, chunk) == IF i = n - 1 THEN total ELSE (i + 1) * chunk

Workers == 0..(num_threads - 1)

-----------------------------------------------------------------------------
(* executeQuery5, step 6: the worker lambda *)

\* An accumulator shared by all workers.
AccSlotShared(thread_id) == 0

\* thread_results[thread_id]: the accumulator worker thread_id uses.
AccSlot(thread_id) == thread_id

\* One iteration of the worker's loop on lineitem_data[idx], up to the point
\* where it reads the accumulator: what it decides (skip the row, throw from
\* std::stod, add a revenue under a nation name) and the two maps it indexes
\* with operator[] as that leaves them.
Row(idx) ==
    LET item == lineitem_data[idx + 1]
        o_key == item.l_orderkey
        s_key == item.l_suppkey
        skip(vc) == [kind |-> "skip", name |-> "", revenue |-> 0,
                     vc |-> vc, nk |-> nation_key_to_name]
    IN  IF o_key \notin DOMAIN valid_orders THEN skip(valid_customers)
        ELSE IF s_key \notin DOMAIN valid_suppliers THEN skip(valid_customers)
        ELSE
          LET c_key == valid_orders[o_key]
              vc == MapIndex(valid_customers, c_key, "")
              c_nation == vc[c_key]
              s_nation == valid_suppliers[s_key]
              price == Stod(item.l_extendedprice)
              discount == Stod(item.l_discount)
              nk == MapIndex(nation_key_to_name, s_nation, "")
          IN  IF c_nation # s_nation THEN skip(vc)
              ELSE IF ~price.ok \/ ~discount.ok
              THEN [kind |-> "throw", name |-> "", revenue |-> 0,
                    vc |-> vc, nk |-> nation_key_to_name]
              ELSE [kind |-> "add", name |-> nk[s_nation],
                    revenue |-> price.val * (100 - discount.val),
                    vc |-> vc, nk |-> nk]

\* ++i and the loop test i < end_idx after the row at wpos[w]: the loop goes on
\* or the lambda returns and the thread ends.
AfterRow(w) == IF wpos[w] + 1 < wrange[w][2] THEN "run" ELSE "finished"

\* Worker w stands at a row of its range.
WorkerAt(w) ==
    /\ pc \notin {"filter", "terminated"}
    /\ wstate[w] = "run"
    /\ wpos[w] < wrange[w][2]

\* The row fails a join test: next row.
WorkerSkip(w) ==
    /\ WorkerAt(w)
    /\ Row(wpos[w]).kind = "skip"
    /\ valid_customers' = Row(wpos[w]).vc
    /\ wpos' = [wpos EXCEPT ![w] = @ + 1]
    /\ wstate' = [wstate EXCEPT ![w] = AfterRow(w)]
    /\ UNCHANGED <<r_name, start_date, end_date, num_threads, customer_data,
                   orders_data, lineitem_data, supplier_data, nation_data,
                   region_data, results, valid_region_keys, nation_key_to_name,
                   valid_suppliers, valid_orders, thread_results, pc, loop_i,
                   wrange, wtmp, contributed, argsVars, outVars>>

\* std::stod throws in the worker's thread: nothing catches it, std::terminate
\* ends the process.
WorkerThrow(w) ==
    /\ WorkerAt(w)
    /\ Row(wpos[w]).kind = "throw"
    /\ valid_customers' = Row(wpos[w]).vc
    /\ pc' = "terminated"
    /\ UNCHANGED <<r_name, start_date, end_date, num_threads, customer_data,
                   orders_data, lineitem_data, supplier_data, nation_data,
                   region_data, results, valid_region_keys, nation_key_to_name,
                   valid_suppliers, valid_orders, thread_results, loop_i,
                   wstate, wrange, wpos, wtmp, contributed, argsVars, outVars>>

\* thread_results[thread_id][n_name] += revenue, first half: the entry is
\* looked up (and created at 0.0 when absent) and the sum is formed.
WorkerLoad(w) ==
    /\ WorkerAt(w)
    /\ Row(wpos[w]).kind = "add"
    /\ LET row == Row(wpos[w])
           slot == AccSlot(w)
           acc == MapIndex(thread_results[slot], row.name, 0)
       IN  /\ valid_customers' = row.vc
           /\ nation_key_to_name' = row.nk
           /\ thread_results' = [thread_results EXCEPT ![slot] = acc]
           /\ wtmp' = [wtmp EXCEPT ![w] =
                         [name |-> row.name, sum |-> acc[row.name] + row.revenue]]
    /\ wstate' = [wstate EXCEPT ![w] = "store"]
    /\ UNCHANGED <<r_name, start_date, end_date, num_threads, customer_data,
                   orders_data, lineitem_data, supplier_data, nation_data,
                   region_data, results, valid_region_keys, valid_suppliers,
                   valid_orders, pc, loop_i, wrange, wpos, contributed,
                   argsVars, outVars>>

\* thread_results[thread_id][n_name] += revenue, second half: the sum is
\* written back; next row.
WorkerStore(w) ==
    /\ pc \notin {"filter", "terminated"}
    /\ wstate[w] = "store"
    /\ thread_results' = [thread_results EXCEPT ![AccSlot(w)] =
                            MapPut(@, wtmp[w].name, wtmp[w].sum)]
    /\ contributed' = contributed \cup {wpos[w]}
    /\ wpos' = [wpos EXCEPT ![w] = @ + 1]
    /\ wstate' = [wstate EXCEPT ![w] = AfterRow(w)]
    /\ UNCHANGED <<r_name, start_date, end_date, num_threads, customer_data,
                   orders_data, lineitem_data, supplier_data, nation_data,
                   region_data, results, valid_region_keys, nation_key_to_name,
                   valid_customers, valid_suppliers, valid_orders, pc, loop_i,
                   wrange, wtmp, argsVars, outVars>>

\* A worker launched on an empty range: the loop test fails at once, the lambda
\* returns and the thread ends.
WorkerExit(w) ==
    /\ pc \notin {"filter", "terminated"}
    /\ wstate[w] = "run"
    /\ wpos[w] >= wrange[w][2]
    /\ wstate' = [wstate EXCEPT ![w] = "finished"]
    /\ UNCHANGED <<r_name, start_date, end_date, num_threads, customer_data,
                   orders_data, lineitem_data, supplier_data, nation_data,
                   region_data, results, valid_region_keys, nation_key_to_name,
                   valid_customers, valid_suppliers, valid_orders,
                   thread_results, pc, loop_i, wrange, wpos, wtmp, contributed,
                   argsVars, outVars>>

-----------------------------------------------------------------------------
(* executeQuery5: the calling thread *)

\* Steps 1 to 5, then the locals of step 6: thread_results(num_threads).
Filter ==
    /\ pc = "filter"
    /\ LET rk == ValidRegionKeys(region_data, r_name)
           nk == NationKeyToName(nation_data, rk)
           vc == ValidCustomers(customer_data, nk)
       IN  /\ valid_region_keys' = rk
           /\ nation_key_to_name' = nk
           /\ valid_customers' = vc
           /\ valid_suppliers' = ValidSuppliers(supplier_data, nk)
           /\ valid_orders' = ValidOrders(orders_data, vc, start_date, end_date)
    /\ thread_results' = [w \in Workers |-> EmptyMap]
    /\ pc' = "launch"
    /\ loop_i' = 0
    /\ UNCHANGED <<r_name, start_date, end_date, num_threads, customer_data,
                   orders_data, lineitem_data, supplier_data, nation_data,
                   region_data, results, wstate, wrange, wpos, wtmp,
                   contributed, argsVars, outVars>>

\* One turn of the launch loop: threads.emplace_back(worker, i, start, end).
Launch ==
    /\ pc = "launch"
    /\ LET total == Len(lineitem_data)
           chunk == ChunkSize(total, num_threads)
           start == RangeStart(loop_i, chunk)
           end == RangeEnd(loop_i, num_threads, total, chunk)
       IN  /\ wrange' = [wrange EXCEPT ![loop_i] = <<start, end>>]
           /\ wpos' = [wpos EXCEPT ![loop_i] = start]
    /\ wstate' = [wstate EXCEPT ![loop_i] = "run"]
    /\ IF loop_i + 1 < num_threads
       THEN loop_i' = loop_i + 1 /\ pc' = pc
       ELSE loop_i' = 0 /\ pc' = "join"
    /\ UNCHANGED <<r_name, start_date, end_date, num_threads, customer_data,
                   orders_data, lineitem_data, supplier_data, nation_data,
                   region_data, results, valid_region_keys, nation_key_to_name,
                   valid_customers, valid_suppliers, valid_orders,
                   thread_results, wtmp, contributed, argsVars, outVars>>

\* A join that does not wait for the thread.
JoinReadyNoWait(w) == TRUE

\* t.join() returns once the thread has ended.
JoinReady(w) == wstate[w] = "finished"

\* One turn of the join loop.
Join ==
    /\ pc = "join"
    /\ JoinReady(loop_i)
    /\ IF loop_i + 1 < num_threads
       THEN loop_i' = loop_i + 1 /\ pc' = pc
       ELSE loop_i' = 0 /\ pc' = "merge"
    /\ UNCHANGED <<r_name, start_date, end_date, num_threads, customer_data,
                   orders_data, lineitem_data, supplier_data, nation_data,
                   region_data, results, valid_region_keys, nation_key_to_name,
                   valid_customers, valid_suppliers, valid_orders,
                   thread_results, wstate, wrange, wpos, wtmp, contributed,
                   argsVars, outVars>>

\* A merge that assigns where the code adds.
MergeIntoAssign(res, partial) ==
    [n \in (DOMAIN res) \cup (DOMAIN partial) |->
        IF n \in DOMAIN partial THEN partial[n] ELSE res[n]]

\* results[pair.first] += pair.second for every pair of one partial map.
MergeInto(res, partial) ==
    [n \in (DOMAIN res) \cup (DOMAIN partial) |->
        (IF n \in DOMAIN res THEN res[n] ELSE 0)
        + (IF n \in DOMAIN partial THEN partial[n] ELSE 0)]

\* One turn of the outer merge loop; after the last one the function returns
\* true.
Merge ==
    /\ pc = "merge"
    /\ results' = MergeInto(results, thread_results[loop_i])
    /\ IF loop_i + 1 < num_threads
       THEN loop_i' = loop_i + 1 /\ pc' = pc
       ELSE loop_i' = 0 /\ pc' = "done"
    /\ UNCHANGED <<r_name, start_date, end_date, num_threads, customer_data,
                   orders_data, lineitem_data, supplier_data, nation_data,
                   region_data, valid_region_keys, nation_key_to_name,
                   valid_customers, valid_suppliers, valid_orders,
                   thread_results, wstate, wrange, wpos, wtmp, contributed,
                   argsVars, outVars>>

-----------------------------------------------------------------------------
(* The engine as a system *)

ArgsIdle ==
    /\ argv = << >>
    /\ table_path = ""
    /\ result_path = ""
    /\ args_status = "idle"
    /\ engine_divisor = 0

OutIdle ==
    /\ file_opens = FALSE
    /\ sorted_results = << >>
    /\ outfile = << >>
    /\ out_status = "idle"

\* executeQuery5 is entered with an empty results map and num_threads >= 1.
Init ==
    /\ \E d \in Datasets :
         /\ r_name = d.rname
         /\ customer_data = d.customers
         /\ orders_data = d.orders
    /\ start_date = "1994-01-01"
    /\ end_date = "1995-01-01"
    /\ region_data = Regions
    /\ nation_data = Nations
    /\ supplier_data = Suppliers
    /\ num_threads \in 1..MaxThreads
    /\ lineitem_data \in UNION {[1..m -> ItemChoices] : m \in 0..MaxItems}
    /\ results = EmptyMap
    /\ valid_region_keys = << >>
    /\ nation_key_to_name = EmptyMap
    /\ valid_customers = EmptyMap
    /\ valid_suppliers = EmptyMap
    /\ valid_orders = EmptyMap
    /\ thread_results = << >>
    /\ pc = "filter"
    /\ loop_i = 0
    /\ wstate = [w \in Workers |-> "unborn"]
    /\ wrange = [w \in Workers |-> <<0, 0>>]
    /\ wpos = [w \in Workers |-> 0]
    /\ wtmp = [w \in Workers |-> [name |-> "", sum |-> 0]]
    /\ contributed = {}
    /\ ArgsIdle
    /\ OutIdle

Next ==
    \/ Filter
    \/ Launch
    \/ \E w \in Workers : WorkerSkip(w)
    \/ \E w \in Workers : WorkerThrow(w)
    \/ \E w \in Workers : WorkerLoad(w)
    \/ \E w \in Workers : WorkerStore(w)
    \/ \E w \in Workers : WorkerExit(w)
    \/ Join
    \/ Merge

Spec == Init /\ [][Next]_vars

-----------------------------------------------------------------------------
(* Properties of executeQuery5 *)

ItemIdx == 0..(Len(lineitem_data) - 1)
Item(i) == lineitem_data[i + 1]

\* extended_price * (1 - discount) of line item i, in ten-thousandths.
RevenueOf(i) ==
    Stod(Item(i).l_extendedprice).val * (100 - Stod(Item(i).l_discount).val)

\* The revenues of the line items in S, summed.
RECURSIVE SumRevenue(_)
SumRevenue(S) ==
    IF S = {} THEN 0
    ELSE LET x == CHOOSE y \in S : TRUE IN RevenueOf(x) + SumRevenue(S \ {x})

\* Line item i passes the joins against the derived mappings: its order is a
\* valid order, its supplier a valid supplier, and the nation of the order's
\* customer is the supplier's nation.
JoinsMappings(i) ==
    /\ Item(i).l_orderkey \in DOMAIN valid_orders
    /\ Item(i).l_suppkey \in DOMAIN valid_suppliers
    /\ valid_orders[Item(i).l_orderkey] \in DOMAIN valid_customers
    /\ valid_customers[valid_orders[Item(i).l_orderkey]]
         = valid_suppliers[Item(i).l_suppkey]

\* ... and that nation carries the name.
QualifiesFor(i, name) ==
    /\ JoinsMappings(i)
    /\ valid_suppliers[Item(i).l_suppkey] \in DOMAIN nation_key_to_name
    /\ nation_key_to_name[valid_suppliers[Item(i).l_suppkey]] = name

NationNames == {Nations[j].n_name : j \in 1..Len(Nations)}

\* C1: when executeQuery5 returns, results holds for every nation name exactly
\* the sum of extended_price * (1 - discount) over the line items that pass the
\* joins against the derived mappings under that name, each counted once, and
\* no entry for a name without such a line item.
C1_ResultsAreQualifyingSums ==
    pc = "done" =>
        /\ DOMAIN results = {n \in NationNames : \E i \in ItemIdx : QualifiesFor(i, n)}
        /\ \A n \in DOMAIN results :
             results[n] = SumRevenue({i \in ItemIdx : QualifiesFor(i, n)})

\* Returned from a run of several workers in which one name received two line
\* items and some line item received none.
C1_Witness ==
    /\ pc = "done"
    /\ num_threads >= 2
    /\ \E n \in DOMAIN results :
         Cardinality({i \in ItemIdx : QualifiesFor(i, n)}) >= 2
    /\ \E i \in ItemIdx : \A n \in NationNames : ~QualifiesFor(i, n)

Rows(table) == {table[j] : j \in 1..Len(table)}

UniqueKeys ==
    /\ \A a, b \in 1..Len(region_data) :
         region_data[a].r_regionkey = region_data[b].r_regionkey => a = b
    /\ \A a, b \in 1..Len(nation_data) :
         nation_data[a].n_nationkey = nation_data[b].n_nationkey => a = b
    /\ \A a, b \in 1..Len(customer_data) :
         customer_data[a].c_custkey = customer_data[b].c_custkey => a = b
    /\ \A a, b \in 1..Len(supplier_data) :
         supplier_data[a].s_suppkey = supplier_data[b].s_suppkey => a = b
    /\ \A a, b \in 1..Len(orders_data) :
         orders_data[a].o_orderkey = orders_data[b].o_orderkey => a = b

\* The nation key lies in a region named r_name.
NationInTargetRegion(nkey) ==
    /\ \E n \in Rows(nation_data) : n.n_nationkey = nkey
    /\ \A n \in Rows(nation_data) : n.n_nationkey = nkey =>
         \E r \in Rows(region_data) :
            r.r_regionkey = n.n_regionkey /\ r.r_name = r_name

\* Line item i, read against the base tables: the order it references is dated
\* in [start_date, end_date), and the nation of that order's customer is the
\* nation of the item's supplier and lies in the target region.
JoinsBaseTables(i) ==
    /\ \E o \in Rows(orders_data) : o.o_orderkey = Item(i).l_orderkey
    /\ \E s \in Rows(supplier_data) : s.s_suppkey = Item(i).l_suppkey
    /\ \A o \in Rows(orders_data) : o.o_orderkey = Item(i).l_orderkey =>
         /\ ~StrLess(o.o_orderdate, start_date)
         /\ StrLess(o.o_orderdate, end_date)
         /\ \E c \in Rows(customer_data) : c.c_custkey = o.o_custkey
         /\ \A c \in Rows(customer_data) : c.c_custkey = o.o_custkey =>
              \A s \in Rows(supplier_data) : s.s_suppkey = Item(i).l_suppkey =>
                 /\ c.c_nationkey = s.s_nationkey
                 /\ NationInTargetRegion(s.s_nationkey)

\* C2: with keys unique within each base table, every line item that has
\* contributed revenue references an order dated in [start_date, end_date)
\* whose customer's nation is the supplier's nation and lies in a region named
\* r_name; an order outside the window contributes nothing.
C2_ContributorsPassFilter ==
    UniqueKeys => \A i \in contributed : JoinsBaseTables(i)

\* Returned with unique keys, some line item having contributed and a line item
\* on an order dated end_date (all its other joins match) having contributed
\* nothing.
C2_Witness ==
    /\ pc = "done"
    /\ UniqueKeys
    /\ contributed # {}
    /\ \E i \in ItemIdx \ contributed :
         /\ Item(i).l_orderkey = "O3"
         /\ \E o \in Rows(orders_data) :
              o.o_orderkey = "O3" /\ o.o_orderdate = end_date

Launched == pc \in {"join", "merge", "done"}

RangeOf(w) == {i \in Int : wrange[w][1] <= i /\ i < wrange[w][2]} \cap (-1..Len(lineitem_data))

\* C3: the ranges handed to the workers are pairwise disjoint, lie within
\* [0, M) and cover [0, M) exactly, also when the workers outnumber the line
\* items; a worker's index never leaves its range, so never [0, M).
C3_RangesPartitionItems ==
    /\ Launched =>
         /\ \A w \in Workers :
              /\ 0 <= wrange[w][1]
              /\ wrange[w][1] <= wrange[w][2]
              /\ wrange[w][2] <= Len(lineitem_data)
         /\ \A v, w \in Workers : v # w => RangeOf(v) \cap RangeOf(w) = {}
         /\ UNION {RangeOf(w) : w \in Workers} = ItemIdx
    /\ \A w \in Workers :
         /\ wstate[w] # "unborn" =>
              wrange[w][1] <= wpos[w] /\ wpos[w] <= wrange[w][2]
         /\ wstate[w] \in {"run", "store"} /\ wpos[w] < wrange[w][2] =>
              wpos[w] \in ItemIdx

\* All workers launched, more workers than line items, and a line item there.
C3_Witness ==
    /\ Launched
    /\ num_threads > Len(lineitem_data)
    /\ Len(lineitem_data) >= 1
    /\ \E w \in Workers : wrange[w][1] = wrange[w][2]

\* What one worker accumulates over the rows [lo, hi), from an empty map.
RECURSIVE WorkerResult(_, _)
WorkerResult(lo, hi) ==
    IF lo >= hi THEN EmptyMap
    ELSE LET acc == WorkerResult(lo, hi - 1)
             row == Row(hi - 1)
         IN  IF row.kind = "add"
             THEN MapPut(acc, row.name,
                         (IF row.name \in DOMAIN acc THEN acc[row.name] ELSE 0)
                         + row.revenue)
             ELSE acc

\* C4: the merged result is the same for every worker count: whatever
\* num_threads is, it is what a single worker over all the line items yields.
C4_ResultIndependentOfWorkerCount ==
    pc = "done" => results = WorkerResult(0, Len(lineitem_data))

\* Returned from a run of the largest worker count with a non-empty result that
\* at least two workers fed.
C4_Witness ==
    /\ pc = "done"
    /\ num_threads = MaxThreads
    /\ results # EmptyMap
    /\ Cardinality({w \in Workers : thread_results[w] # EmptyMap}) >= 2

\* What a step taken in the parallel phase leaves alone: the derived mappings
\* and the line items; every accumulator but that of the one worker stepping;
\* and a worker at work stands inside its own range.
ParallelStepIsPrivate ==
    pc \in {"launch", "join"} =>
        /\ valid_region_keys' = valid_region_keys
        /\ nation_key_to_name' = nation_key_to_name
        /\ valid_customers' = valid_customers
        /\ valid_suppliers' = valid_suppliers
        /\ valid_orders' = valid_orders
        /\ lineitem_data' = lineitem_data
        /\ \A w \in Workers :
             /\ thread_results'[w] # thread_results[w] =>
                  /\ wstate[w] \in {"run", "store"}
                  /\ wstate'[w] # wstate[w]
                  /\ \A v \in Workers \ {w} :
                       wstate'[v] = wstate[v] /\ wpos'[v] = wpos[v]
             /\ wstate[w] \in {"run", "store"} =>
                  /\ wrange[w][1] <= wpos[w] /\ wpos[w] <= wrange[w][2]
                  /\ wpos'[w] # wpos[w] \/ wstate[w] = "store" =>
                       wpos[w] < wrange[w][2]

\* C5: in the parallel phase, under every interleaving, no step changes a
\* derived mapping or the line items, an accumulator changes only in a step of
\* the worker that owns it, and a worker reads only rows of its own range.
C5_WorkersShareNothingMutable == [][ParallelStepIsPrivate]_vars

\* Two workers are in the middle of an accumulation at once.
C5_Witness ==
    /\ pc \in {"launch", "join"}
    /\ \E v, w \in Workers :
         v # w /\ wstate[v] = "store" /\ wstate[w] = "store"

\* C6: the merge runs only after every worker has ended: while a worker is
\* unfinished the calling thread is not in the merge loop, has not returned,
\* and results is untouched.
C6_MergeAfterAllWorkers ==
    (pc \in {"merge", "done"} \/ results # EmptyMap) =>
        \A w \in Workers : wstate[w] = "finished"

\* The calling thread is in the middle of the merge of several workers.
C6_Witness ==
    /\ pc = "merge"
    /\ loop_i >= 1
    /\ results # EmptyMap

\* The partial maps of the workers, merged in index order.
RECURSIVE MergedUpTo(_)
MergedUpTo(n) ==
    IF n = 0 THEN EmptyMap
    ELSE LET chunk == ChunkSize(Len(lineitem_data), num_threads)
         IN  MergeInto(MergedUpTo(n - 1),
                       WorkerResult(RangeStart(n - 1, chunk),
                                    RangeEnd(n - 1, num_threads,
                                             Len(lineitem_data), chunk)))

\* C7: for fixed inputs and worker count the result does not depend on the
\* schedule: every run that returns holds the one mapping fixed by the inputs
\* and num_threads.
C7_ResultIndependentOfSchedule ==
    pc = "done" => results = MergedUpTo(num_threads)

\* Returned from a run in which two workers each accumulated revenue.
C7_Witness ==
    /\ pc = "done"
    /\ \E v, w \in Workers :
         v # w /\ thread_results[v] # EmptyMap /\ thread_results[w] # EmptyMap

\* The extended price or the discount of item i holds no digit where a number
\* must start: the field cannot be parsed as a number.
Unparseable(i) ==
    \/ StodScan(Item(i).l_extendedprice).ndigits = 0
    \/ StodScan(Item(i).l_discount).ndigits = 0

\* C8 as stated: a run with any unparseable extended price or discount does
\* not return; it aborts, whether or not the row passes the joins.
C8_AsClaimed ==
    pc = "done" => \A i \in ItemIdx : ~Unparseable(i)

\* C8, amended: a run in which a line item that passes the joins has an
\* unparseable extended price or discount never returns; when a worker throws,
\* the process ends with results still empty, and it throws only on such a row.
C8_JoinedCorruptRowAborts ==
    /\ pc = "done" => \A i \in ItemIdx : JoinsMappings(i) => ~Unparseable(i)
    /\ pc = "terminated" =>
         /\ results = EmptyMap
         /\ \E i \in ItemIdx : JoinsMappings(i) /\ Unparseable(i)

\* The process ended by a throw after another worker had accumulated revenue.
C8_Witness ==
    /\ pc = "terminated"
    /\ \E w \in Workers : thread_results[w] # EmptyMap

-----------------------------------------------------------------------------
(* parseArgs *)

\* The values the reference parameters hold while parseArgs runs.
Args(rn, sd, ed, nt, tp, rp) ==
    [r_name |-> rn, start_date |-> sd, end_date |-> ed, num_threads |-> nt,
     table_path |-> tp, result_path |-> rp, threw |-> FALSE]

\* The argument loop from C index i on (args[k + 1] is argv[k]): a flag with a
\* value after it stores the value and skips it, anything else is passed over;
\* std::stoi may throw on the value of --threads.
RECURSIVE ParseLoop(_, _, _)
ParseLoop(args, i, st) ==
    IF i >= Len(args) THEN st
    ELSE LET arg == args[i + 1]
             val == args[i + 2]
         IN  IF i + 1 < Len(args)
             THEN IF arg = "--r_name"
                  THEN ParseLoop(args, i + 2, [st EXCEPT !.r_name = val])
                  ELSE IF arg = "--start_date"
                  THEN ParseLoop(args, i + 2, [st EXCEPT !.start_date = val])
                  ELSE IF arg = "--end_date"
                  THEN ParseLoop(args, i + 2, [st EXCEPT !.end_date = val])
                  ELSE IF arg = "--threads"
                  THEN IF Stoi(val).ok
                       THEN ParseLoop(args, i + 2,
                                      [st EXCEPT !.num_threads = Stoi(val).val])
                       ELSE [st EXCEPT !.threw = TRUE]
                  ELSE IF arg = "--table_path"
                  THEN ParseLoop(args, i + 2, [st EXCEPT !.table_path = val])
                  ELSE IF arg = "--result_path"
                  THEN ParseLoop(args, i + 2, [st EXCEPT !.result_path = val])
                  ELSE ParseLoop(args, i + 1, st)
             ELSE ParseLoop(args, i + 1, st)

\* A validation that leaves out the worker count.
ArgsRejectedStringsOnly(st) ==
    \/ st.r_name = ""
    \/ st.start_date = ""
    \/ st.end_date = ""
    \/ st.table_path = ""
    \/ st.result_path = ""

\* The validation after the loop: parseArgs returns false.
ArgsRejected(st) ==
    \/ st.r_name = ""
    \/ st.start_date = ""
    \/ st.end_date = ""
    \/ st.table_path = ""
    \/ st.result_path = ""
    \/ st.num_threads <= 0

\* The call of parseArgs.
ParseArgs ==
    /\ args_status = "start"
    /\ LET st == ParseLoop(argv, 1, Args(r_name, start_date, end_date,
                                         num_threads, table_path, result_path))
       IN  /\ r_name' = st.r_name
           /\ start_date' = st.start_date
           /\ end_date' = st.end_date
           /\ num_threads' = st.num_threads
           /\ table_path' = st.table_path
           /\ result_path' = st.result_path
           /\ args_status' = IF st.threw THEN "threw"
                             ELSE IF ArgsRejected(st) THEN "false" ELSE "true"
    /\ UNCHANGED <<argv, engine_divisor, customer_data, orders_data,
                   lineitem_data, supplier_data, nation_data, region_data,
                   results, valid_region_keys, nation_key_to_name,
                   valid_customers, valid_suppliers, valid_orders,
                   thread_results, pc, loop_i, wstate, wrange, wpos, wtmp,
                   contributed, outVars>>

\* The caller, on true: the engine starts and executeQuery5 divides the number
\* of line items by num_threads.
CallerStartsEngine ==
    /\ args_status = "true"
    /\ args_status' = "engine"
    /\ engine_divisor' = num_threads
    /\ UNCHANGED <<engineVars, argv, table_path, result_path, outVars>>

\* The caller, on false: the program ends and no row is processed.
CallerExits ==
    /\ args_status = "false"
    /\ args_status' = "exit"
    /\ UNCHANGED <<engineVars, argv, table_path, result_path, engine_divisor,
                   outVars>>

\* The engine's tables and locals, untouched.
EngineIdle ==
    /\ customer_data = << >>
    /\ orders_data = << >>
    /\ lineitem_data = << >>
    /\ supplier_data = << >>
    /\ nation_data = << >>
    /\ region_data = << >>
    /\ valid_region_keys = << >>
    /\ nation_key_to_name = EmptyMap
    /\ valid_customers = EmptyMap
    /\ valid_suppliers = EmptyMap
    /\ valid_orders = EmptyMap
    /\ thread_results = << >>
    /\ pc = "idle"
    /\ loop_i = 0
    /\ wstate = << >>
    /\ wrange = << >>
    /\ wpos = << >>
    /\ wtmp = << >>
    /\ contributed = {}

\* A flag with one of the values, or the flag left out.
Option(flag, values) == {<< >>} \cup {<<flag, v>> : v \in values}

\* The command lines a run is given; the last one may end in a flag that has
\* no value.
ArgvChoices ==
    { <<"query5">> \o rn \o sd \o ed \o th \o tp \o rp \o tail :
        rn \in Option("--r_name", {"ASIA", "MARS", ""}),
        sd \in Option("--start_date", {"1994-01-01", "garbage"}),
        ed \in Option("--end_date", {"1995-01-01", "1993-12-31"}),
        th \in Option("--threads", {"4", "2", "0", "-2", "abc", " 3"}),
        tp \in Option("--table_path", {"data/"}),
        rp \in Option("--result_path", {"out.txt"}),
        tail \in {<< >>, <<"--threads">>} }

\* The caller's strings are empty; its int holds whatever it holds.
InitArgs ==
    /\ argv \in ArgvChoices
    /\ r_name = ""
    /\ start_date = ""
    /\ end_date = ""
    /\ num_threads \in {-1, 0, 3}
    /\ table_path = ""
    /\ result_path = ""
    /\ args_status = "start"
    /\ engine_divisor = 0
    /\ results = EmptyMap
    /\ EngineIdle
    /\ OutIdle

NextArgs ==
    \/ ParseArgs
    \/ CallerStartsEngine
    \/ CallerExits

SpecArgs == InitArgs /\ [][NextArgs]_vars

\* The characters are a date written yyyy-mm-dd.
IsIsoDate(s) ==
    LET cs == Spelling[s]
    IN  /\ Len(cs) = 10
        /\ \A k \in 1..10 : IF k \in {5, 8} THEN cs[k] = 45 ELSE IsDigit(cs[k])

-----------------------------------------------------------------------------
(* outputResults *)

Entry(name, revenue) == [first |-> name, second |-> revenue]

\* The comparator turned round.
CompAscending(a, b) == a.second < b.second

\* The comparator handed to std::sort: a.second > b.second.
Comp(a, b) == a.second > b.second


\* The entries of the map, as the vector built from results.begin() to
\* results.end() holds them.
Entries(m) == {Entry(n, m[n]) : n \in DOMAIN m}

\* What std::sort may leave in the vector: the same elements, no later one
\* ordered before an earlier one by the comparator.  The sort is not stable, so
\* elements the comparator does not tell apart come in any order.
SortOutcomes(es) ==
    {s \in [1..Cardinality(es) -> es] :
        /\ \A a, b \in 1..Cardinality(es) : s[a] = s[b] => a = b
        /\ \A a, b \in 1..Cardinality(es) : a < b => ~Comp(s[b], s[a])}

\* std::fixed << std::setprecision(4) of a revenue held in ten-thousandths: the
\* integer part and the four digits after the point.
Fixed4(v) == [units |-> v \div 10000, decimals |-> v % 10000]

\* pair.first << "|" << pair.second
Line(e) == [name |-> e.first, revenue |-> Fixed4(e.second)]

\* The file cannot be opened: return false.
OpenFails ==
    /\ out_status = "start"
    /\ ~file_opens
    /\ out_status' = "false"
    /\ UNCHANGED <<engineVars, argsVars, file_opens, sorted_results, outfile>>

\* The file is open: the map is copied into the vector and the vector sorted.
CopyAndSort ==
    /\ out_status = "start"
    /\ file_opens
    /\ sorted_results' \in SortOutcomes(Entries(results))
    /\ out_status' = "write"
    /\ UNCHANGED <<engineVars, argsVars, file_opens, outfile>>

\* One turn of the write loop.
WriteLine ==
    /\ out_status = "write"
    /\ Len(outfile) < Len(sorted_results)
    /\ outfile' = Append(outfile, Line(sorted_results[Len(outfile) + 1]))
    /\ UNCHANGED <<engineVars, argsVars, file_opens, sorted_results, out_status>>

\* The loop is over: the file is closed, return true.
CloseAndReturn ==
    /\ out_status = "write"
    /\ Len(outfile) = Len(sorted_results)
    /\ out_status' = "true"
    /\ UNCHANGED <<engineVars, argsVars, file_opens, sorted_results, outfile>>

\* The merged maps a run is given: any of three nations, two of the revenues
\* equal when the map holds them twice.
ResultChoices ==
    UNION {[S -> {250000, 900000, 906000}] : S \in SUBSET {"CHINA", "INDIA", "FRANCE"}}

InitOut ==
    /\ results \in ResultChoices
    /\ file_opens \in BOOLEAN
    /\ sorted_results = << >>
    /\ outfile = << >>
    /\ out_status = "start"
    /\ r_name = ""
    /\ start_date = ""
    /\ end_date = ""
    /\ num_threads = 1
    /\ EngineIdle
    /\ ArgsIdle

NextOut ==
    \/ OpenFails
    \/ CopyAndSort
    \/ WriteLine
    \/ CloseAndReturn

SpecOut == InitOut /\ [][NextOut]_vars

\* The revenue a line shows, in ten-thousandths.
Shown(line) == line.revenue.units * 10000 + line.revenue.decimals

\* The lines written show every entry of the map exactly once.
EmitsEveryEntryOnce ==
    /\ Len(outfile) = Cardinality(DOMAIN results)
    /\ \A n \in DOMAIN results :
         \E k \in 1..Len(outfile) :
            /\ outfile[k].name = n
            /\ Shown(outfile[k]) = results[n]
            /\ \A j \in 1..Len(outfile) : outfile[j].name = n => j = k

\* The lines written so far are non-increasing in revenue.
NonIncreasing ==
    \A k \in 1..(Len(outfile) - 1) : Shown(outfile[k]) >= Shown(outfile[k + 1])

\* C10 as stated: for any results map, a call of outputResults that has
\* returned has emitted every entry exactly once, in non-increasing order.
C10_AsClaimed ==
    out_status \in {"true", "false"} => EmitsEveryEntryOnce /\ NonIncreasing

\* No step of outputResults changes the map it was given.
ResultsUntouched == results' = results

\* C10, amended: when the result file opens, outputResults emits every entry
\* of the map exactly once, non-increasing in revenue (equal revenues in any
\* order), and returns true; when it does not open, nothing is emitted and
\* false is returned; the map is not modified either way.
C10_SortedCompleteOutput ==
    /\ [](/\ out_status = "true" => EmitsEveryEntryOnce
          /\ out_status = "false" => outfile = << >>
          /\ NonIncreasing)
    /\ [][ResultsUntouched]_vars

\* Returned true with three lines written, two of them of equal revenue and
\* one of a larger revenue.
C10_Witness ==
    /\ out_status = "true"
    /\ Len(outfile) = 3
    /\ \E j, k \in 1..3 : j # k /\ Shown(outfile[j]) = Shown(outfile[k])
    /\ \E j, k \in 1..3 : Shown(outfile[j]) > Shown(outfile[k])

=============================================================================
